---- MODULE Spec2Model ----
(***************************************************************************)
(* Model of the type-lowering and cast-validation code of the checker:     *)
(*   analyzer/expr/type_cast.rs  (validate_type_cast, _inner)              *)
(*   analyzer/convert.rs         (lowering, type references, defaulting)   *)
(***************************************************************************)
EXTENDS Integers, Sequences, FiniteSets, TLC

VARIABLES
    castOrig,       \* type_cast.rs: orig_ty after expand_fully
    castTo,         \* type_cast.rs: casted_ty after expand_fully
    castAssign,     \* verdict the assignability checker would give for the pair
    castPc,         \* "start" before validate_type_cast ran, "done" after
    castInner,      \* what validate_type_cast_inner did
    castOut,        \* what validate_type_cast returned
    defIn,          \* convert.rs: the parameter pattern as parsed
    defCur,         \* the pattern as it is now (the defaulter rewrites it in place)
    defPrev,        \* the pattern before the latest run of the defaulter
    defRuns,        \* how often the defaulter ran on the pattern
    lowAn,          \* convert.rs: the Analyzer (scopes, info.errors, is_builtin)
    lowPc,          \* "ready", "lowered" (a node was lowered), "referenced"
    lowOp,          \* the node that was lowered and what its validate returned
    lowRef          \* what a reference lowered afterwards resolved to

castVars == <<castOrig, castTo, castAssign, castPc, castInner, castOut>>

defVars == <<defIn, defCur, defPrev, defRuns>>

lowVars == <<lowAn, lowPc, lowOp, lowRef>>

vars == <<castOrig, castTo, castAssign, castPc, castInner, castOut,
          defIn, defCur, defPrev, defRuns, lowAn, lowPc, lowOp, lowRef>>

\* Option::None
None == [kind |-> "None"]

(***************************************************************************)
(* Semantic types seen by the cast validator (ty::Type, spans dropped:     *)
(* type_eq ignores them).                                                  *)
(***************************************************************************)
MaxTypeSize == 4

Keywords == {"number", "string"}

Keyword(k) == [kind |-> "Keyword", kw |-> k]
Tuple(es) == [kind |-> "Tuple", elems |-> es]
Array(t) == [kind |-> "Array", elem_type |-> t]
Union(ts) == [kind |-> "Union", types |-> ts]

RECURSIVE TypesOfSize(_), TypeSeqsOfSize(_)
\* every sequence of types whose sizes add up to n
TypeSeqsOfSize(n) ==
    IF n = 0 THEN {<<>>}
    ELSE UNION {{<<t>> \o s : t \in TypesOfSize(k), s \in TypeSeqsOfSize(n - k)} : k \in 1..n}

\* every type built from exactly n nodes
TypesOfSize(n) ==
    IF n = 0 THEN {}
    ELSE (IF n = 1 THEN {Keyword(k) : k \in Keywords} ELSE {})
         \cup {Tuple(s) : s \in TypeSeqsOfSize(n - 1)}
         \cup {Array(t) : t \in TypesOfSize(n - 1)}
         \cup {Union(s) : s \in {q \in TypeSeqsOfSize(n - 1) : Len(q) >= 2}}

CastTypes == UNION {TypesOfSize(n) : n \in 1..MaxTypeSize}

(***************************************************************************)
(* util::TypeEq: structural equality.                                      *)
(***************************************************************************)
type_eq(a, b) == a = b

(***************************************************************************)
(* validate_type_cast_inner (type_cast.rs:65-159).                         *)
(* The result is [res, via]: res is "Ok", "Err" (InvalidTupleCast) or      *)
(* "Panic" (index out of range at rt.elems[0]); via names the return       *)
(* statement taken.                                                        *)
(***************************************************************************)
RECURSIVE validate_type_cast_inner(_, _), tuple_elems_castable(_, _, _)

\* type_cast.rs:97-116: the element loop; "all" iff all_castable stays true,
\* "Panic" when an element's recursive call panics before a failing one.
tuple_elems_castable(lt, rt, i) ==
    IF i > Len(lt.elems) THEN "all"
    ELSE LET res == validate_type_cast_inner(rt.elems[i], lt.elems[i]).res
         IN  IF res = "Panic" THEN "Panic"
             ELSE IF res = "Err" THEN "break"
             ELSE tuple_elems_castable(lt, rt, i + 1)

validate_type_cast_inner(orig_ty, casted_ty) ==
    IF orig_ty.kind = "Union"
       /\ \E i \in 1..Len(orig_ty.types) : type_eq(casted_ty, orig_ty.types[i])
    THEN [res |-> "Ok", via |-> "union"]
    ELSE IF casted_ty.kind = "Tuple" /\ orig_ty.kind = "Tuple"
    THEN IF Len(casted_ty.elems) # Len(orig_ty.elems)
         THEN [res |-> "Err", via |-> "arity"]
         ELSE LET all_castable == tuple_elems_castable(casted_ty, orig_ty, 1)
              IN  IF all_castable = "Panic" THEN [res |-> "Panic", via |-> "index"]
                  ELSE IF all_castable = "all" THEN [res |-> "Ok", via |-> "tuple"]
                  ELSE [res |-> "Ok", via |-> "fallthrough"]
    ELSE IF casted_ty.kind = "Array" /\ orig_ty.kind = "Tuple"
    THEN IF Len(orig_ty.elems) = 0 THEN [res |-> "Panic", via |-> "index"]
         ELSE IF type_eq(orig_ty.elems[1], casted_ty.elem_type)
         THEN [res |-> "Ok", via |-> "array"]
         ELSE [res |-> "Ok", via |-> "fallthrough"]
    ELSE [res |-> "Ok", via |-> "fallthrough"]

(***************************************************************************)
(* validate_type_cast (type_cast.rs:47-63), from line 60 on: both types    *)
(* are already expanded.  The `?` propagates the inner error; any other    *)
(* return of the inner routine yields Ok(casted_ty).                       *)
(***************************************************************************)
validate_type_cast(orig_ty, casted_ty) ==
    LET inner == validate_type_cast_inner(orig_ty, casted_ty)
    IN  IF inner.res = "Ok" THEN [res |-> "Ok", ty |-> casted_ty]
        ELSE [res |-> inner.res, ty |-> casted_ty]

NoResult == [res |-> "none", via |-> "none"]

\* no cast expression under validation
CastIdle ==
    /\ castOrig = None
    /\ castTo = None
    /\ castAssign = FALSE
    /\ castPc = "idle"
    /\ castInner = NoResult
    /\ castOut = "none"

\* no parameter pattern under defaulting
DefIdle ==
    /\ defIn = None
    /\ defCur = None
    /\ defPrev = None
    /\ defRuns = 0

\* no node under lowering
LowIdle ==
    /\ lowAn = None
    /\ lowPc = "idle"
    /\ lowOp = None
    /\ lowRef = None

CastInit ==
    /\ DefIdle
    /\ LowIdle
    /\ castOrig \in CastTypes
    /\ castTo \in CastTypes
    /\ castAssign \in BOOLEAN
    /\ castPc = "start"
    /\ castInner = NoResult
    /\ castOut = "none"

\* Validate<TsAsExpr> / Validate<TsTypeAssertion>: one cast expression checked
ValidateCast ==
    /\ castPc = "start"
    /\ castPc' = "done"
    /\ castInner' = validate_type_cast_inner(castOrig, castTo)
    /\ castOut' = validate_type_cast(castOrig, castTo).res
    /\ UNCHANGED <<castOrig, castTo, castAssign>>
    /\ UNCHANGED <<defVars, lowVars>>

CastNext == ValidateCast

SpecCast == CastInit /\ [][CastNext]_vars

(***************************************************************************)
(* Claims about the cast validator, checked under SpecCast.                *)
(***************************************************************************)
BothTuplesArityDiffers ==
    /\ castTo.kind = "Tuple"
    /\ castOrig.kind = "Tuple"
    /\ Len(castTo.elems) # Len(castOrig.elems)

UnionRuleApplies ==
    /\ castOrig.kind = "Union"
    /\ \E i \in 1..Len(castOrig.types) : castOrig.types[i] = castTo

\* C1: validate_type_cast_inner returns the InvalidTupleCast error exactly
\* when target and source are tuples of different element counts (the union
\* rule not having applied), and returns success for every other pair.
C1_ErrorIffArityMismatch ==
    castPc = "done" =>
        IF BothTuplesArityDiffers /\ ~UnionRuleApplies
        THEN castInner.res = "Err"
        ELSE castInner.res = "Ok"

\* the error half of C1 alone, which the code does satisfy
C1_ErrOnlyOnArityMismatch ==
    castPc = "done" =>
        (castInner.res = "Err" <=> (BothTuplesArityDiffers /\ ~UnionRuleApplies))

\* C2: for a tuple target and a tuple source of equal arity the cast is
\* permitted iff every element pair (source element i against target element
\* i) is recursively permitted.
C2_TupleCastIffElements ==
    (castPc = "done"
     /\ castTo.kind = "Tuple" /\ castOrig.kind = "Tuple"
     /\ Len(castTo.elems) = Len(castOrig.elems))
    => (castInner.res = "Ok"
        <=> \A i \in 1..Len(castTo.elems) :
                validate_type_cast_inner(castOrig.elems[i], castTo.elems[i]).res = "Ok")

\* C3: when no structural rule permits the cast, validate_type_cast accepts
\* it iff the assignability checker accepts assigning the source to the target.
C3_FallbackIsAssignVerdict ==
    (castPc = "done" /\ castInner.via = "fallthrough")
    => (castOut = "Ok" <=> castAssign)

\* C15: validate_type_cast_inner returns a result (success or the arity
\* error) for every source and target type, without an out-of-range element
\* access; an array target with a zero-element tuple source included.
C15_NoOutOfRangeAccess ==
    castPc = "done" => castInner.res \in {"Ok", "Err"}

\* the pair the array rule indexes out of range: a tuple source without
\* elements against an array target (type_cast.rs:131)
EmptyTupleToArray ==
    /\ castTo.kind = "Array"
    /\ castOrig.kind = "Tuple"
    /\ Len(castOrig.elems) = 0

\* the array rule on a tuple source with at least one element returns
C15_NonEmptyTupleToArrayReturns ==
    (castPc = "done" /\ castTo.kind = "Array" /\ castOrig.kind = "Tuple"
     /\ Len(castOrig.elems) > 0)
    => castInner.res = "Ok"

\* the out-of-range access is reached at the top level only by that pair
C15_Witness ==
    castPc = "done" /\ EmptyTupleToArray /\ castInner.res = "Panic"

(***************************************************************************)
(* Implicit-any defaulting (convert.rs:673-809).                           *)
(*                                                                         *)
(* Syntax nodes are records.  A span is [at, mark]: at is "src" for a span *)
(* of the parsed text and "dummy" for DUMMY_SP; mark is TRUE once          *)
(* apply_mark(implicit_type_mark) was applied.                             *)
(***************************************************************************)
MaxPatSize == 5
MaxRuns == 2

SrcSpan == [at |-> "src", mark |-> FALSE]
DUMMY_SP == [at |-> "dummy", mark |-> FALSE]
apply_mark(span) == [span EXCEPT !.mark = TRUE]

TsTypeAnn(span, ty) == [kind |-> "TsTypeAnn", span |-> span, type_ann |-> ty]
TsKeywordType(span, k) == [kind |-> "TsKeywordType", span |-> span, kw |-> k]
TsTupleElement(span, ty) == [span |-> span, label |-> None, ty |-> ty]
TsTupleType(span, elem_types) ==
    [kind |-> "TsTupleType", span |-> span, elem_types |-> elem_types]
TsTypeLit(span, members) == [kind |-> "TsTypeLit", span |-> span, members |-> members]

\* the property signature default_any_object synthesizes (convert.rs:757-774, 777-787)
SynthPropertySignature(key, type_ann) ==
    [kind |-> "TsPropertySignature", span |-> DUMMY_SP, readonly |-> FALSE,
     key |-> key, computed |-> FALSE, optional |-> FALSE, init |-> None,
     params |-> <<>>, type_ann |-> type_ann, type_params |-> None]

\* an annotation the user wrote: `: number`
UserAnn == TsTypeAnn(SrcSpan, TsKeywordType(SrcSpan, "number"))

PatIdent(ann) == [kind |-> "Ident", sym |-> "a", type_ann |-> ann]
PatArray(elems, ann) ==
    [kind |-> "Array", span |-> SrcSpan, elems |-> elems, type_ann |-> ann]
PatObject(props, ann) == [kind |-> "Object", props |-> props, type_ann |-> ann]
PatRest(ann) == [kind |-> "Rest", type_ann |-> ann]
PropKeyValue(value) == [kind |-> "KeyValue", key |-> "x", value |-> value]
PropAssign == [kind |-> "Assign", key |-> "y"]
PropRest == [kind |-> "Rest"]

RECURSIVE PatsOfSize(_), ElemSeqsOfSize(_), PropSeqsOfSize(_)
\* array-pattern elements (Option<Pat>; a hole counts one node) of n nodes in all
ElemSeqsOfSize(n) ==
    IF n = 0 THEN {<<>>}
    ELSE {<<None>> \o s : s \in ElemSeqsOfSize(n - 1)}
         \cup UNION {{<<q>> \o s : q \in PatsOfSize(k), s \in ElemSeqsOfSize(n - k)}
                     : k \in 1..n}

\* object-pattern properties of n nodes in all
PropSeqsOfSize(n) ==
    IF n = 0 THEN {<<>>}
    ELSE {<<pr>> \o s : pr \in {PropAssign, PropRest}, s \in PropSeqsOfSize(n - 1)}
         \cup UNION {{<<PropKeyValue(q)>> \o s : q \in PatsOfSize(k),
                                                  s \in PropSeqsOfSize(n - k)}
                     : k \in 1..n}

\* every pattern of exactly n nodes
PatsOfSize(n) ==
    IF n = 0 THEN {}
    ELSE (IF n = 1 THEN {PatIdent(None), PatIdent(UserAnn)} ELSE {})
         \cup {PatArray(es, ann) : es \in ElemSeqsOfSize(n - 1), ann \in {None, UserAnn}}
         \cup {PatObject(ps, ann) : ps \in PropSeqsOfSize(n - 1), ann \in {None, UserAnn}}

\* an array-pattern element of exactly n nodes
ElemsOfSize(n) == (IF n = 1 THEN {None} ELSE {}) \cup PatsOfSize(n)

\* an object-pattern property of exactly n nodes
PropsOfSize(n) ==
    (IF n = 1 THEN {PropAssign, PropRest} ELSE {})
    \cup {PropKeyValue(q) : q \in PatsOfSize(n)}

\* util::PatExt::get_mut_ty: the type of the pattern's annotation, if it has one
get_mut_ty(pat) ==
    IF pat.kind \in {"Ident", "Array", "Object", "Rest"} /\ pat.type_ann # None
    THEN pat.type_ann.type_ann
    ELSE None

\* util::PatExt::set_ty(None)
set_ty_none(pat) ==
    IF pat.kind \in {"Ident", "Array", "Object", "Rest"}
    THEN [pat EXCEPT !.type_ann = None]
    ELSE pat

\* Spanned for Option<Pat>: the pattern's span, DUMMY_SP for a hole
ElemSpan(elem) == IF elem = None THEN DUMMY_SP ELSE SrcSpan

RECURSIVE default_any_pat(_), default_any_array_pat(_), default_any_object(_),
          default_array_elems(_, _), default_object_props(_, _)

\* convert.rs:682-694
default_any_ident(i) ==
    IF i.type_ann # None THEN i
    ELSE [i EXCEPT !.type_ann =
            TsTypeAnn(apply_mark(DUMMY_SP),
                      TsKeywordType(apply_mark(DUMMY_SP), "any"))]

\* default_array_elems giving `any` to nested patterns too
default_array_elems_AllAny(elems, k) ==
    IF k > Len(elems) THEN [elems |-> <<>>, tys |-> <<>>]
    ELSE LET rest == default_array_elems(elems, k + 1)
         IN  [elems |-> <<elems[k]>> \o rest.elems,
              tys |-> <<TsTupleElement(ElemSpan(elems[k]),
                                       TsKeywordType(DUMMY_SP, "any"))>> \o rest.tys]

\* convert.rs:706-735: the map over arr.elems, from element k on; the result
\* is [elems, tys]: the elements as rewritten and the tuple elements made.
default_array_elems(elems, k) ==
    IF k > Len(elems) THEN [elems |-> <<>>, tys |-> <<>>]
    ELSE LET elem == elems[k]
             span == ElemSpan(elem)
             done == IF elem # None /\ elem.kind = "Array"
                     THEN default_any_array_pat(elem)
                     ELSE IF elem # None /\ elem.kind = "Object"
                     THEN default_any_object(elem)
                     ELSE elem
             nested == elem # None /\ elem.kind \in {"Array", "Object"}
             ty == IF nested THEN done.type_ann.type_ann
                   ELSE TsKeywordType(DUMMY_SP, "any")
             left == IF nested THEN [done EXCEPT !.type_ann = None] ELSE elem
             rest == default_array_elems(elems, k + 1)
         IN  [elems |-> <<left>> \o rest.elems,
              tys |-> <<TsTupleElement(span, ty)>> \o rest.tys]

\* default_any_array_pat without the early return of convert.rs:697-699
default_any_array_pat_NoEarlyReturn(arr) ==
    LET r == default_array_elems(arr.elems, 1)
    IN  [arr EXCEPT !.elems = r.elems,
                    !.type_ann = TsTypeAnn(arr.span, TsTupleType(DUMMY_SP, r.tys))]

\* convert.rs:696-738
default_any_array_pat(arr) ==
    IF arr.type_ann # None THEN arr
    ELSE LET r == default_array_elems(arr.elems, 1)
         IN  [arr EXCEPT !.elems = r.elems,
                         !.type_ann = TsTypeAnn(arr.span, TsTupleType(DUMMY_SP, r.tys))]

\* default_object_props typing every untyped member `any`
default_object_props_AnyForUntyped(props, k) ==
    IF k > Len(props) THEN [props |-> <<>>, members |-> <<>>]
    ELSE LET p == props[k]
             rest == default_object_props(props, k + 1)
             any == TsTypeAnn(DUMMY_SP, TsKeywordType(DUMMY_SP, "any"))
         IN  IF p.kind = "KeyValue"
             THEN LET value == IF p.value.kind \in {"Array", "Object"}
                               THEN default_any_pat(p.value)
                               ELSE p.value
                      ty == get_mut_ty(value)
                      type_ann == IF ty = None THEN any ELSE TsTypeAnn(DUMMY_SP, ty)
                  IN  [props |-> <<[p EXCEPT !.value = set_ty_none(value)]>> \o rest.props,
                       members |-> <<SynthPropertySignature(p.key, type_ann)>>
                                   \o rest.members]
             ELSE IF p.kind = "Assign"
             THEN [props |-> <<p>> \o rest.props,
                   members |-> <<SynthPropertySignature(p.key, any)>> \o rest.members]
             ELSE [props |-> <<p>> \o rest.props, members |-> rest.members]

\* convert.rs:747-791: the loop over obj.props, from property k on; the
\* result is [props, members].
default_object_props(props, k) ==
    IF k > Len(props) THEN [props |-> <<>>, members |-> <<>>]
    ELSE LET p == props[k]
             rest == default_object_props(props, k + 1)
         IN  IF p.kind = "KeyValue"
             THEN LET value == IF p.value.kind \in {"Array", "Object"}
                               THEN default_any_pat(p.value)
                               ELSE p.value
                      ty == get_mut_ty(value)
                      type_ann == IF ty = None THEN None ELSE TsTypeAnn(DUMMY_SP, ty)
                  IN  [props |-> <<[p EXCEPT !.value = set_ty_none(value)]>> \o rest.props,
                       members |-> <<SynthPropertySignature(p.key, type_ann)>>
                                   \o rest.members]
             ELSE IF p.kind = "Assign"
             THEN [props |-> <<p>> \o rest.props,
                   members |-> <<SynthPropertySignature(p.key, None)>> \o rest.members]
             ELSE [props |-> <<p>> \o rest.props, members |-> rest.members]

\* convert.rs:740-800
default_any_object(obj) ==
    IF obj.type_ann # None THEN obj
    ELSE LET r == default_object_props(obj.props, 1)
         IN  [obj EXCEPT !.props = r.props,
                         !.type_ann = TsTypeAnn(apply_mark(DUMMY_SP),
                                                TsTypeLit(DUMMY_SP, r.members))]

\* convert.rs:673-680
default_any_pat(p) ==
    IF p.kind = "Ident" THEN default_any_ident(p)
    ELSE IF p.kind = "Array" THEN default_any_array_pat(p)
    ELSE IF p.kind = "Object" THEN default_any_object(p)
    ELSE p

\* the pattern kinds a TsFnParam can be
FnParamKinds == {"Ident", "Array", "Rest", "Object"}

\* convert.rs:802-809
default_any_param(p) ==
    IF p.kind = "Ident" THEN default_any_ident(p)
    ELSE IF p.kind = "Array" THEN default_any_array_pat(p)
    ELSE IF p.kind = "Rest" THEN p
    ELSE default_any_object(p)

\* the parameter is a rest parameter or any identifier, array or object
\* pattern of at most MaxPatSize nodes
DefInit ==
    /\ CastIdle
    /\ LowIdle
    /\ \E n \in 1..MaxPatSize :
          \/ n = 1 /\ defIn \in PatsOfSize(1) \cup {PatRest(None), PatRest(UserAnn)}
          \/ \E ann \in {None, UserAnn}, k \in 1..(n - 1) :
                \E e \in ElemsOfSize(k), es \in ElemSeqsOfSize(n - 1 - k) :
                    defIn = PatArray(<<e>> \o es, ann)
          \/ \E ann \in {None, UserAnn}, k \in 1..(n - 1) :
                \E pr \in PropsOfSize(k), ps \in PropSeqsOfSize(n - 1 - k) :
                    defIn = PatObject(<<pr>> \o ps, ann)
    /\ defCur = defIn
    /\ defPrev = defIn
    /\ defRuns = 0

\* Validate<TsFnType> / Validate<TsConstructorType> (convert.rs:427-429, 450-452):
\* the defaulter runs on a parameter of a function type
DefaultAnyParam ==
    /\ defRuns < MaxRuns
    /\ defCur.kind \in FnParamKinds
    /\ defPrev' = defCur
    /\ defCur' = default_any_param(defCur)
    /\ defRuns' = defRuns + 1
    /\ UNCHANGED defIn
    /\ UNCHANGED <<castVars, lowVars>>

\* default_any_pat called on a pattern (crate-visible entry point)
DefaultAnyPat ==
    /\ defRuns < MaxRuns
    /\ defPrev' = defCur
    /\ defCur' = default_any_pat(defCur)
    /\ defRuns' = defRuns + 1
    /\ UNCHANGED defIn
    /\ UNCHANGED <<castVars, lowVars>>

DefNext == DefaultAnyParam \/ DefaultAnyPat

SpecDefault == DefInit /\ [][DefNext]_vars

(***************************************************************************)
(* Claims about the defaulter, checked under SpecDefault.                  *)
(***************************************************************************)
HasAnn(p) == p.kind \in {"Ident", "Array", "Object", "Rest"} /\ p.type_ann # None

\* C9: every annotation the defaulter synthesizes (on an identifier, an
\* array pattern or an object pattern) carries implicit_type_mark on its
\* span, and no annotation the user wrote carries it.
C9_SynthesizedAnnotationsMarked ==
    defRuns >= 1 =>
        /\ (~HasAnn(defIn) /\ HasAnn(defCur)) => defCur.type_ann.span.mark
        /\ HasAnn(defIn) => ~defCur.type_ann.span.mark

\* C9 restricted to identifiers and object patterns, which the code does mark
C9_IdentAndObjectMarked ==
    (defRuns >= 1 /\ defIn.kind \in {"Ident", "Object"}) =>
        /\ (~HasAnn(defIn) /\ HasAnn(defCur)) => defCur.type_ann.span.mark
        /\ HasAnn(defIn) => ~defCur.type_ann.span.mark

\* C10: a second run of the defaulter on a pattern leaves the whole pattern
\* subtree unchanged, and a pattern annotated before the first run is left
\* untouched.
C10_DefaultingIdempotent ==
    /\ defRuns >= 2 => defCur = defPrev
    /\ (defRuns >= 1 /\ HasAnn(defIn)) => defCur = defIn

\* a nested pattern was rewritten by the first run and the second run kept it
C10_Witness ==
    /\ defRuns = 2
    /\ defIn.kind = "Array"
    /\ ~HasAnn(defIn)
    /\ \E k \in 1..Len(defIn.elems) :
          defIn.elems[k] # None /\ defIn.elems[k].kind \in {"Array", "Object"}
    /\ defCur # defIn
    /\ defCur = defPrev

\* The shape of a type, spans left out: any, a keyword the user wrote, a tuple
\* of shapes, or a type literal of [key, ty] members (ty Untyped: no type).
AnyShape == [s |-> "any"]
UserShape == [s |-> "user"]
Untyped == [s |-> "untyped"]
TupleShape(of) == [s |-> "tuple", of |-> of]
LitShape(of) == [s |-> "lit", of |-> of]

RECURSIVE ShapeOf(_)
ShapeOf(ty) ==
    IF ty.kind = "TsKeywordType"
    THEN (IF ty.kw = "any" THEN AnyShape ELSE UserShape)
    ELSE IF ty.kind = "TsTupleType"
    THEN TupleShape([k \in 1..Len(ty.elem_types) |-> ShapeOf(ty.elem_types[k].ty)])
    ELSE LitShape([k \in 1..Len(ty.members) |->
                      [key |-> ty.members[k].key,
                       ty |-> IF ty.members[k].type_ann = None THEN Untyped
                              ELSE ShapeOf(ty.members[k].type_ann.type_ann)]])

IsNested(e) == e # None /\ e.kind \in {"Array", "Object"}
\* the properties of an object pattern that are not rest properties, in order
NamedProps(props) == SelectSeq(props, LAMBDA pr : pr.kind # "Rest")

\* The shape the defaulter is to give a pattern, read off the pattern as
\* parsed: a pattern that carries an annotation keeps it.
RECURSIVE ExpectedShape(_)
ExpectedShape(p) ==
    IF HasAnn(p) THEN ShapeOf(p.type_ann.type_ann)
    ELSE IF p.kind = "Array"
    THEN TupleShape([k \in 1..Len(p.elems) |->
                        IF IsNested(p.elems[k]) THEN ExpectedShape(p.elems[k])
                        ELSE AnyShape])
    ELSE IF p.kind = "Object"
    THEN LitShape([k \in 1..Len(NamedProps(p.props)) |->
                      LET pr == NamedProps(p.props)[k]
                      IN  [key |-> pr.key,
                           ty |-> IF pr.kind = "KeyValue"
                                     /\ (IsNested(pr.value) \/ HasAnn(pr.value))
                                  THEN ExpectedShape(pr.value)
                                  ELSE Untyped]])
    ELSE AnyShape

\* C11: an array pattern without annotation gets a tuple annotation with one
\* element per pattern element, in order; the element of a nested array or
\* object pattern is that pattern's own annotation once it was defaulted,
\* which is moved out of the nested pattern, and every other element is `any`.
C11_ArrayPatternTuple ==
    (defRuns >= 1 /\ defIn.kind = "Array" /\ ~HasAnn(defIn))
    => /\ HasAnn(defCur)
       /\ defCur.type_ann.type_ann.kind = "TsTupleType"
       /\ Len(defCur.type_ann.type_ann.elem_types) = Len(defIn.elems)
       /\ Len(defCur.elems) = Len(defIn.elems)
       /\ \A k \in 1..Len(defIn.elems) :
             /\ ShapeOf(defCur.type_ann.type_ann.elem_types[k].ty)
                  = IF IsNested(defIn.elems[k]) THEN ExpectedShape(defIn.elems[k])
                    ELSE AnyShape
             /\ IsNested(defIn.elems[k]) => defCur.elems[k].type_ann = None

\* `[a, [b, c]]` was defaulted to the 2-tuple [any, [any, any]]
C11_Witness ==
    /\ defRuns = 1
    /\ defIn = PatArray(<<PatIdent(None),
                          PatArray(<<PatIdent(None), PatIdent(None)>>, None)>>, None)
    /\ HasAnn(defCur)
    /\ ShapeOf(defCur.type_ann.type_ann)
         = TupleShape(<<AnyShape, TupleShape(<<AnyShape, AnyShape>>)>>)
    /\ defCur.elems[2].type_ann = None

\* C12: an object pattern without annotation gets a type literal with one
\* property signature per key-value and per shorthand property, in order,
\* and none for a rest property; a key-value property whose value is a nested
\* array or object pattern is typed with that pattern's annotation once it
\* was defaulted, and a shorthand property or a key-value property whose
\* value has no type is left without a type.
C12_ObjectPatternTypeLit ==
    (defRuns >= 1 /\ defIn.kind = "Object" /\ ~HasAnn(defIn))
    => /\ HasAnn(defCur)
       /\ defCur.type_ann.type_ann.kind = "TsTypeLit"
       /\ Len(defCur.type_ann.type_ann.members) = Len(NamedProps(defIn.props))
       /\ \A k \in 1..Len(NamedProps(defIn.props)) :
             LET pr == NamedProps(defIn.props)[k]
                 m == defCur.type_ann.type_ann.members[k]
             IN  /\ m.kind = "TsPropertySignature"
                 /\ m.key = pr.key
                 /\ IF pr.kind = "KeyValue" /\ IsNested(pr.value)
                    THEN /\ m.type_ann # None
                         /\ ShapeOf(m.type_ann.type_ann) = ExpectedShape(pr.value)
                    ELSE IF pr.kind = "Assign" \/ ~HasAnn(pr.value)
                    THEN m.type_ann = None
                    ELSE TRUE

\* `{ x: [p, q], y }` was defaulted: x is typed [any, any], y has no type
C12_Witness ==
    /\ defRuns = 1
    /\ defIn = PatObject(<<PropKeyValue(PatArray(<<PatIdent(None), PatIdent(None)>>, None)),
                           PropAssign>>, None)
    /\ HasAnn(defCur)
    /\ ShapeOf(defCur.type_ann.type_ann)
         = LitShape(<<[key |-> "x", ty |-> TupleShape(<<AnyShape, AnyShape>>)],
                      [key |-> "y", ty |-> Untyped]>>)


(***************************************************************************)
(* Type lowering (convert.rs:24-671).                                      *)
(*                                                                         *)
(* The Analyzer is a record:                                               *)
(*   scopes      the scope chain, outermost first; a scope is the sequence *)
(*               of its bindings [name, ty, oid] in registration order     *)
(*   errors      info.errors, the diagnostics collector                    *)
(*   is_builtin  the analyzer is lowering a built-in library               *)
(*   regs, fail  register_type was called regs times; its call number      *)
(*               fail fails (0: none does)                                 *)
(*   log, path   the record of what the handlers did, and the handler      *)
(*               positions the analyzer is inside of                       *)
(* A validate returns [a, ok, v, err]: the analyzer afterwards, whether it *)
(* returned Ok, and the value or the error.                                *)
(***************************************************************************)
MaxTypeArgs == 2
MaxTypeParams == 2
MaxRegs == 3

Ok(a, v) == [a |-> a, ok |-> TRUE, v |-> v, err |-> None]
Err(a, e) == [a |-> a, ok |-> FALSE, v |-> None, err |-> e]

Log(a, e) == [a EXCEPT !.log = Append(@, e)]
Enter(a, m) == [a EXCEPT !.path = Append(@, m)]
Leave(a) == [a EXCEPT !.path = SubSeq(@, 1, Len(@) - 1)]

\* syntax nodes
EntityIdent(sym) == [kind |-> "Ident", sym |-> sym]
EntityQualified(sym) == [kind |-> "TsQualifiedName", sym |-> sym]
TsTypeRef(type_name, type_params) ==
    [kind |-> "TsTypeRef", type_name |-> type_name, type_params |-> type_params]
TsTypeParamInstantiation(params) ==
    [kind |-> "TsTypeParamInstantiation", params |-> params]
TsTypeParam(name, constraint, default) ==
    [name |-> name, constraint |-> constraint, default |-> default]
TsInferType(type_param) == [kind |-> "TsInferType", type_param |-> type_param]
TsTypeParamDecl(params) == [kind |-> "TsTypeParamDecl", params |-> params]

\* semantic types
TypeParam(name, constraint, default) ==
    [kind |-> "Param", name |-> name, constraint |-> constraint, default |-> default]
Ref(type_name, type_args) ==
    [kind |-> "Ref", type_name |-> type_name, type_args |-> type_args]
InferType(type_param) == [kind |-> "Infer", type_param |-> type_param]
TypeParamDecl(params) == [kind |-> "TypeParamDecl", params |-> params]
TypeParamInstantiation(params) ==
    [kind |-> "TypeParamInstantiation", params |-> params]

\* Analyzer::register_type: call number a.fail returns Err; any other call
\* appends the binding to the innermost scope, never replacing one.
register_type(a, name, ty) ==
    LET n == a.regs + 1
        ok == n # a.fail
        a1 == Log([a EXCEPT !.regs = n],
                  [ev |-> "register", n |-> n, name |-> name, ty |-> ty,
                   depth |-> Len(a.scopes), ok |-> ok, at |-> a.path])
    IN  IF ok
        THEN Ok([a1 EXCEPT !.scopes[Len(a.scopes)] =
                    Append(@, [name |-> name, ty |-> ty, oid |-> n])], None)
        ELSE Err(a1, [err |-> "register_type", name |-> name])

\* Analyzer::find_type: the bindings of name visible in the scope chain,
\* innermost scope first, a scope's own bindings in registration order.
RECURSIVE find_in_scopes(_, _, _)
find_in_scopes(scopes, name, d) ==
    IF d = 0 THEN <<>>
    ELSE SelectSeq(scopes[d], LAMBDA b : b.name = name)
         \o find_in_scopes(scopes, name, d - 1)

find_type(a, name) == find_in_scopes(a.scopes, name, Len(a.scopes))

\* the mutant of first_type_param: the last placeholder instead of the first
RECURSIVE last_type_param(_, _)
last_type_param(types, k) ==
    IF k > Len(types) THEN None
    ELSE LET later == last_type_param(types, k + 1)
         IN  IF later # None THEN later
             ELSE IF types[k].ty.kind = "Param" THEN types[k]
             ELSE None

\* convert.rs:491-496: the first binding, from the k-th on, that is a Type::Param
RECURSIVE first_type_param(_, _)
first_type_param(types, k) ==
    IF k > Len(types) THEN None
    ELSE IF types[k].ty.kind = "Param" THEN types[k]
    ELSE first_type_param(types, k + 1)

\* `let v = ...;` followed by the rest of the block
Let(v, In(_)) == In(v)
\* the `?` operator: an Err is returned at once, an Ok goes on
Try(r, Then(_)) == IF r.ok THEN Then(r) ELSE r
\* a validate call made for field m of the node under lowering
InField(a, m, Validate(_)) ==
    Let(Validate(Enter(a, m)), LAMBDA r : [r EXCEPT !.a = Leave(@)])

RECURSIVE validate_ts_type(_, _), validate_ts_types(_, _, _),
          validate_type_ref(_, _), validate_type_param(_, _),
          validate_opt_type_args(_, _)

\* Vec<TsType>::validate_with (convert.rs:316, 405): the elements from the
\* k-th on, in order; the first failure is returned
validate_ts_types(a, tys, k) ==
    IF k > Len(tys) THEN Ok(a, <<>>)
    ELSE Try(validate_ts_type(a, tys[k]), LAMBDA r :
         Try(validate_ts_types(r.a, tys, k + 1), LAMBDA rest :
         Ok(rest.a, <<r.v>> \o rest.v)))

\* try_opt!(type_params.validate_with(self)) with convert.rs:315-322
validate_opt_type_args(a, i) ==
    IF i = None THEN Ok(a, None)
    ELSE Try(validate_ts_types(a, i.params, 1), LAMBDA r :
         Ok(r.a, TypeParamInstantiation(r.v)))

\* convert.rs:474-514
validate_type_ref(a, t) ==
    LET ResolvedAs(a1, how, oid, ty) ==
            Ok(Log(a1, [ev |-> "resolve", name |-> t.type_name, how |-> how,
                        oid |-> oid, ty |-> ty, at |-> a1.path,
                        found |-> IF how = "array" THEN <<>>
                                  ELSE find_type(a1, t.type_name.sym)]), ty)
    IN  Try(validate_opt_type_args(a, t.type_params), LAMBDA args :
        LET type_args == args.v
            a1 == args.a
            ref == ResolvedAs(a1, "ref", None, Ref(t.type_name, type_args))
        IN  IF /\ t.type_name.kind = "Ident"
               /\ t.type_name.sym = "Array"
               /\ type_args # None
            THEN IF Len(type_args.params) = 1
                 THEN ResolvedAs(a1, "array", None, Array(type_args.params[1]))
                 ELSE ref
            ELSE IF t.type_name.kind = "Ident"
            THEN Let(first_type_param(find_type(a1, t.type_name.sym), 1), LAMBDA b :
                 IF b # None THEN ResolvedAs(a1, "param", b.oid, b.ty)
                 ELSE ref)
            ELSE ref)

\* convert.rs:62-74
validate_type_param(a, p) ==
    Try(IF p.constraint = None THEN Ok(a, None)
        ELSE InField(a, [in |-> "constraint", of |-> p.name],
                     LAMBDA a1 : validate_ts_type(a1, p.constraint)), LAMBDA c :
    Try(IF p.default = None THEN Ok(c.a, None)
        ELSE InField(c.a, [in |-> "default", of |-> p.name],
                     LAMBDA a1 : validate_ts_type(a1, p.default)), LAMBDA d :
    Let(TypeParam(p.name, c.v, d.v), LAMBDA param :
    Try(register_type(d.a, p.name, param), LAMBDA reg :
    Ok(reg.a, param)))))

\* convert.rs:631-671 (the node kinds the model draws types from)
validate_ts_type(a, ty) ==
    IF ty.kind = "TsKeywordType" THEN Ok(a, Keyword(ty.kw))
    ELSE IF ty.kind = "TsTypeRef" THEN validate_type_ref(a, ty)
    ELSE \* TsInferType, convert.rs:519-526
         Try(validate_type_param(a, ty.type_param), LAMBDA r :
         Ok(r.a, InferType(r.v)))

\* Vec<TsTypeParam>::validate_with (convert.rs:33, 49)
RECURSIVE validate_type_params(_, _, _)
validate_type_params(a, params, k) ==
    IF k > Len(params) THEN Ok(a, <<>>)
    ELSE Try(validate_type_param(a, params[k]), LAMBDA r :
         Try(validate_type_params(r.a, params, k + 1), LAMBDA rest :
         Ok(rest.a, <<r.v>> \o rest.v)))

\* convert.rs:36-47: the open placeholders, from parameter k on
RECURSIVE register_open_params(_, _, _)
register_open_params(a, params, k) ==
    IF k > Len(params) THEN Ok(a, None)
    ELSE Try(register_type(a, params[k].name, TypeParam(params[k].name, None, None)),
             LAMBDA reg : register_open_params(reg.a, params, k + 1))

\* validate_type_param_decl taking the built-in path always: no open placeholders
validate_type_param_decl_NoOpen(a, decl) ==
    Try(validate_type_params(a, decl.params, 1), LAMBDA r :
    Ok(r.a, TypeParamDecl(r.v)))

\* convert.rs:27-56
validate_type_param_decl(a, decl) ==
    Try(IF a.is_builtin THEN Ok(a, None)
        ELSE register_open_params(a, decl.params, 1), LAMBDA pre :
    Try(validate_type_params(pre.a, decl.params, 1), LAMBDA r :
    Ok(r.a, TypeParamDecl(r.v))))

\* try_opt!(self.validate(&mut d.type_params))
validate_opt_type_param_decl(a, decl) ==
    IF decl = None THEN Ok(a, None) ELSE validate_type_param_decl(a, decl)

(***************************************************************************)
(* Type elements and interfaces (convert.rs:121-298).  A member's validate *)
(* also yields the member node as it leaves it (node): the property        *)
(* signature rewrites its annotation in place.                             *)
(***************************************************************************)
MaxMembers == 2

WithNode(r, node) ==
    [a |-> r.a, ok |-> r.ok, v |-> r.v, err |-> r.err, node |-> node]

TsFnParam(ty) == [kind |-> "TsFnParam", type_ann |-> ty]
TsMethodSignature(computed, key_ok, type_params, params, type_ann) ==
    [kind |-> "TsMethodSignature", computed |-> computed, key_ok |-> key_ok,
     type_params |-> type_params, params |-> params, type_ann |-> type_ann]
TsPropertySignature(computed, key_ok, type_ann, type_params) ==
    [kind |-> "TsPropertySignature", span |-> SrcSpan, computed |-> computed,
     key_ok |-> key_ok, params |-> <<>>, type_ann |-> type_ann,
     type_params |-> type_params]
TsCallSignatureDecl(type_params, params, type_ann) ==
    [kind |-> "TsCallSignatureDecl", type_params |-> type_params,
     params |-> params, type_ann |-> type_ann]
TsConstructSignatureDecl(type_params, params, type_ann) ==
    [kind |-> "TsConstructSignatureDecl", type_params |-> type_params,
     params |-> params, type_ann |-> type_ann]
TsIndexSignature(params, type_ann) ==
    [kind |-> "TsIndexSignature", params |-> params, type_ann |-> type_ann]
TsExprWithTypeArgs(expr, type_args) == [expr |-> expr, type_args |-> type_args]
TsInterfaceDecl(id, type_params, extends, body) ==
    [kind |-> "TsInterfaceDecl", id |-> id, type_params |-> type_params,
     extends |-> extends, body |-> body]

\* Type::any(span)
TypeAny == Keyword("any")
\* Type::any(d.span).into(): the annotation written back into the node
SyntheticAnyAnn == TsTypeAnn(SrcSpan, TsKeywordType(SrcSpan, "any"))

Interface(name, type_params, extends, body) ==
    [kind |-> "Interface", name |-> name, type_params |-> type_params,
     extends |-> extends, body |-> body]

\* Analyzer::with_child: a scope is pushed, the closure runs, the scope is
\* popped whatever the closure returned
enter_child(a) == [a EXCEPT !.scopes = Append(@, <<>>)]
leave_child(a) == [a EXCEPT !.scopes = SubSeq(@, 1, Len(@) - 1)]

\* try_opt!(self.validate(&mut d.type_ann)) on an Option<TsTypeAnn> (convert.rs:81-85)
validate_opt_type_ann(a, ann) ==
    IF ann = None THEN Ok(a, None) ELSE validate_ts_type(a, ann.type_ann)

\* Vec<TsFnParam>::validate_with: each parameter's annotation is lowered, in order
RECURSIVE validate_fn_params(_, _, _)
validate_fn_params(a, params, k) ==
    IF k > Len(params) THEN Ok(a, <<>>)
    ELSE Try(validate_ts_type(a, params[k].type_ann), LAMBDA r :
         Try(validate_fn_params(r.a, params, k + 1), LAMBDA rest :
         Ok(rest.a, <<r.v>> \o rest.v)))

\* validate_computed_prop_key / ComputedPropName visitor: a key expression
\* that does not resolve is reported to the collector
validate_computed_prop_key(a, d) ==
    IF d.key_ok THEN a
    ELSE [a EXCEPT !.errors = Append(@, [err |-> "computed_key"])]

\* convert.rs:201-203, 214-216, 236-238: the three fields of a signature, in
\* the order the struct literal names them
SignatureFields(a, d, order, k) ==
    LET Field(a0, f) ==
            InField(a0, [in |-> f, of |-> d.kind], LAMBDA a1 :
                IF f = "type_params" THEN validate_opt_type_param_decl(a1, d.type_params)
                ELSE IF f = "params" THEN validate_fn_params(a1, d.params, 1)
                ELSE validate_opt_type_ann(a1, d.type_ann))
    IN  Try(Field(a, order[1]), LAMBDA r1 :
        Try(Field(r1.a, order[2]), LAMBDA r2 :
        Try(Field(r2.a, order[3]), LAMBDA r3 :
        Ok(r3.a,
           [kind |-> k,
            type_params |-> (IF order[1] = "type_params" THEN r1.v ELSE r2.v),
            params |-> (IF order[1] = "params" THEN r1.v ELSE r2.v),
            ret_ty |-> r3.v]))))

\* convert.rs:198-205
validate_construct_signature(a, d) ==
    WithNode(SignatureFields(a, d, <<"params", "type_params", "type_ann">>, "Constructor"), d)

\* convert.rs:211-218
validate_call_signature(a, d) ==
    WithNode(SignatureFields(a, d, <<"params", "type_params", "type_ann">>, "Call"), d)

\* validate_method_signature without with_child: the signature is lowered in
\* the scope of the enclosing interface
validate_method_signature_NoChild(a, d) ==
    LET c == IF d.computed THEN validate_computed_prop_key(a, d) ELSE a
    IN  WithNode(SignatureFields(c, d, <<"type_params", "params", "type_ann">>, "Method"), d)

\* convert.rs:224-241
validate_method_signature(a, d) ==
    LET child == enter_child(a)
        c == IF d.computed THEN validate_computed_prop_key(child, d) ELSE child
    IN  Let(SignatureFields(c, d, <<"type_params", "params", "type_ann">>, "Method"),
            LAMBDA r : WithNode([r EXCEPT !.a = leave_child(@)], d))

\* convert.rs:247-254
validate_index_signature(a, d) ==
    WithNode(
        Try(InField(a, [in |-> "params", of |-> d.kind],
                    LAMBDA a1 : validate_fn_params(a1, d.params, 1)), LAMBDA ps :
        Try(InField(ps.a, [in |-> "type_ann", of |-> d.kind],
                    LAMBDA a1 : validate_opt_type_ann(a1, d.type_ann)), LAMBDA ann :
        Ok(ann.a, [kind |-> "Index", params |-> ps.v, type_ann |-> ann.v]))),
        d)

\* self.info.errors.push(e) by the property signature's recovery
push_property_error(a, e) ==
    Log([a EXCEPT !.errors = Append(@, e)],
        [ev |-> "push_error", by |-> "TsPropertySignature", at |-> a.path])

\* convert.rs:276-294: the type_ann field of the property signature; it
\* always yields a type
property_type_ann(a, d) ==
    IF d.type_ann = None
    THEN WithNode(Ok(a, TypeAny), [d EXCEPT !.type_ann = SyntheticAnyAnn])
    ELSE Let(validate_ts_type(a, d.type_ann.type_ann), LAMBDA r :
         IF r.ok THEN WithNode(r, d)
         ELSE WithNode(Ok(push_property_error(r.a, r.err), TypeAny),
                       [d EXCEPT !.type_ann = SyntheticAnyAnn]))

\* convert.rs:260-297
validate_property_signature(a, d) ==
    LET a0 == IF ~a.is_builtin /\ d.computed THEN validate_computed_prop_key(a, d) ELSE a
    IN  Let(InField(a0, [in |-> "params", of |-> d.kind],
                    LAMBDA a1 : validate_fn_params(a1, d.params, 1)), LAMBDA ps :
        IF ~ps.ok THEN WithNode(ps, d)
        ELSE Let(InField(ps.a, [in |-> "type_ann", of |-> d.kind],
                         LAMBDA a1 : property_type_ann(a1, d)), LAMBDA ann :
             WithNode(
                 Try(InField(ann.a, [in |-> "type_params", of |-> d.kind],
                             LAMBDA a1 : validate_opt_type_param_decl(a1, d.type_params)),
                     LAMBDA tps :
                 Ok(tps.a, [kind |-> "Property", computed |-> d.computed,
                            params |-> ps.v, type_ann |-> ann.v,
                            type_params |-> tps.v])),
                 ann.node)))

\* convert.rs:182-192
validate_type_element(a, e) ==
    IF e.kind = "TsCallSignatureDecl" THEN validate_call_signature(a, e)
    ELSE IF e.kind = "TsConstructSignatureDecl" THEN validate_construct_signature(a, e)
    ELSE IF e.kind = "TsIndexSignature" THEN validate_index_signature(a, e)
    ELSE IF e.kind = "TsMethodSignature" THEN validate_method_signature(a, e)
    ELSE validate_property_signature(a, e)

\* convert.rs:158-165, Vec<TsTypeElement>::validate_with: the members from the
\* k-th on, in order; node is the member list as the handlers leave it
RECURSIVE validate_type_elements(_, _, _)
validate_type_elements(a, body, k) ==
    IF k > Len(body) THEN WithNode(Ok(a, <<>>), <<>>)
    ELSE Let(InField(a, [in |-> "member", of |-> "TsInterfaceBody", k |-> k], LAMBDA a1 :
                 validate_type_element(
                     Log(a1, [ev |-> "member", of |-> k, kind |-> body[k].kind]),
                     body[k])), LAMBDA r :
         IF ~r.ok THEN WithNode(r, <<r.node>> \o SubSeq(body, k + 1, Len(body)))
         ELSE Let(validate_type_elements(r.a, body, k + 1), LAMBDA rest :
              IF ~rest.ok THEN WithNode(rest, <<r.node>> \o rest.node)
              ELSE WithNode(Ok(rest.a, <<r.v>> \o rest.v), <<r.node>> \o rest.node)))

\* convert.rs:303-309 with Vec::validate_with: the extends list from the k-th on
RECURSIVE validate_extends(_, _, _)
validate_extends(a, extends, k) ==
    IF k > Len(extends) THEN Ok(a, <<>>)
    ELSE Try(validate_opt_type_args(a, extends[k].type_args), LAMBDA r :
         Try(validate_extends(r.a, extends, k + 1), LAMBDA rest :
         Ok(rest.a, <<[expr |-> extends[k].expr, type_args |-> r.v]>> \o rest.v)))

\* store losing the failure instead of recording it
store_Drop(reg) == reg.a

\* register_type(...).store(&mut child.info.errors)
store(reg) == IF reg.ok THEN reg.a ELSE [reg.a EXCEPT !.errors = Append(@, reg.err)]

\* Analyzer::resolve_parent_interfaces, as the point where it is called
resolve_parent_interfaces(a) ==
    Log(a, [ev |-> "resolve_parent_interfaces", at |-> a.path])

\* interface_in_child registering the interface before its body is lowered
interface_in_child_RegisterFirst(child, d) ==
    Let(InField(child, [in |-> "type_params", of |-> d.kind],
                LAMBDA a1 : validate_opt_type_param_decl(a1, d.type_params)), LAMBDA tps :
    IF ~tps.ok THEN WithNode(tps, d)
    ELSE Let(InField(tps.a, [in |-> "extends", of |-> d.kind],
                     LAMBDA a1 : validate_extends(a1, d.extends, 1)), LAMBDA ext :
    IF ~ext.ok THEN WithNode(ext, d)
    ELSE Let(InField(store(register_type(ext.a, d.id,
                                         Interface(d.id, tps.v, ext.v, <<>>))),
                     [in |-> "body", of |-> d.kind],
                     LAMBDA a1 : validate_type_elements(a1, d.body, 1)), LAMBDA body :
    IF ~body.ok THEN WithNode(body, [d EXCEPT !.body = body.node])
    ELSE WithNode(Ok(resolve_parent_interfaces(body.a),
                     Interface(d.id, tps.v, ext.v, body.v)),
                  [d EXCEPT !.body = body.node]))))

\* convert.rs:128-145: the closure run in the child scope
interface_in_child(child, d) ==
    Let(InField(child, [in |-> "type_params", of |-> d.kind],
                LAMBDA a1 : validate_opt_type_param_decl(a1, d.type_params)), LAMBDA tps :
    IF ~tps.ok THEN WithNode(tps, d)
    ELSE Let(InField(tps.a, [in |-> "extends", of |-> d.kind],
                     LAMBDA a1 : validate_extends(a1, d.extends, 1)), LAMBDA ext :
    IF ~ext.ok THEN WithNode(ext, d)
    ELSE Let(InField(ext.a, [in |-> "body", of |-> d.kind],
                     LAMBDA a1 : validate_type_elements(a1, d.body, 1)), LAMBDA body :
    IF ~body.ok THEN WithNode(body, [d EXCEPT !.body = body.node])
    ELSE Let(Interface(d.id, tps.v, ext.v, body.v), LAMBDA ty :
         WithNode(Ok(resolve_parent_interfaces(store(register_type(body.a, d.id, ty))),
                     ty),
                  [d EXCEPT !.body = body.node])))))

\* convert.rs:124-153
validate_interface_decl(a, d) ==
    Let(interface_in_child(enter_child(a), d), LAMBDA r :
    Let(leave_child(r.a), LAMBDA popped :
    IF ~r.ok THEN [r EXCEPT !.a = popped]
    ELSE WithNode(Try(register_type(popped, d.id, r.v), LAMBDA reg : Ok(reg.a, r.v)),
                  r.node)))

(***************************************************************************)
(* The nodes the lowering is run on, and the scopes it starts in.          *)
(***************************************************************************)
NumberType == TsKeywordType(SrcSpan, "number")
NameRef(sym) == TsTypeRef(EntityIdent(sym), None)
\* `infer U`: lowering it registers U, which can fail
InferU == TsInferType(TsTypeParam("U", None, None))

ArgTypes == {NumberType, NameRef("T"), InferU}
TypeArgs ==
    {None} \cup {TsTypeParamInstantiation(ps) :
                    ps \in UNION {[1..n -> ArgTypes] : n \in 1..MaxTypeArgs}}
RefNames == {"T", "Array", "Node"}
TypeRefs ==
    {TsTypeRef(EntityIdent(n), args) : n \in RefNames, args \in TypeArgs}
    \cup {TsTypeRef(EntityQualified("T"), None)}

ParamNames == {"T", "U"}
\* `T`, `T extends T`, `T extends U`, `T extends SomeOp<T>`, each with or
\* without a default; lowering the default `infer U` registers U, which can fail
ConstraintsOf(n) ==
    {None, NameRef("T"), NameRef("U"), TsTypeRef(EntityIdent("SomeOp"), TsTypeParamInstantiation(<<NameRef(n)>>))}
TsTypeParams ==
    UNION {{TsTypeParam(n, c, d) : c \in ConstraintsOf(n), d \in {None, InferU}}
           : n \in ParamNames}
TsTypeParamDecls ==
    {TsTypeParamDecl(ps) : ps \in UNION {[1..n -> TsTypeParams] : n \in 1..MaxTypeParams}}

DeclT == TsTypeParamDecl(<<TsTypeParam("T", None, None)>>)
DeclU == TsTypeParamDecl(<<TsTypeParam("U", None, None)>>)

AnnOf(ty) == TsTypeAnn(SrcSpan, ty)
\* a key that is not computed, a computed key that resolves, one that does not
KeyVariants == {<<FALSE, TRUE>>, <<TRUE, TRUE>>, <<TRUE, FALSE>>}
SigParams == {<<>>, <<TsFnParam(NameRef("T"))>>, <<TsFnParam(InferU)>>}
SigAnns == {None, AnnOf(NameRef("T"))}

Methods ==
    {TsMethodSignature(kv[1], kv[2], tps, ps, ann) :
        kv \in KeyVariants, tps \in {None, DeclT}, ps \in SigParams, ann \in SigAnns}
Properties ==
    {TsPropertySignature(kv[1], kv[2], ann, tps) :
        kv \in KeyVariants,
        ann \in {None, AnnOf(NumberType), AnnOf(NameRef("T")), AnnOf(NameRef("Node")),
                 AnnOf(InferU)},
        tps \in {None, DeclU}}
CallSignatures ==
    {TsCallSignatureDecl(tps, ps, ann) :
        tps \in {None, DeclT}, ps \in SigParams, ann \in SigAnns}
ConstructSignatures ==
    {TsConstructSignatureDecl(tps, ps, ann) :
        tps \in {None, DeclT}, ps \in SigParams, ann \in SigAnns}
IndexSignatures ==
    {TsIndexSignature(ps, ann) :
        ps \in {<<TsFnParam(NumberType)>>, <<TsFnParam(InferU)>>}, ann \in SigAnns}
TypeElements ==
    Methods \cup Properties \cup CallSignatures \cup ConstructSignatures
    \cup IndexSignatures

\* the members interface bodies are made of: keys are not computed
BodyMembers ==
    {m \in Methods : ~m.computed /\ m.params # <<>>}
    \cup {pr \in Properties : ~pr.computed /\ pr.type_params = None}
    \cup {c \in CallSignatures : c.type_params # None /\ c.params = <<TsFnParam(NameRef("T"))>>}
Bodies == {<<>>} \cup UNION {[1..n -> BodyMembers] : n \in 1..MaxMembers}
Interfaces ==
    {TsInterfaceDecl("Node", tps, ext, body) :
        tps \in {None, DeclT},
        ext \in {<<>>, <<TsExprWithTypeArgs("Base", TsTypeParamInstantiation(<<InferU>>))>>},
        body \in Bodies}

\* a binding made before the lowering under study (oid <= 0)
Binding(name, ty, oid) == [name |-> name, ty |-> ty, oid |-> oid]
InitScopes ==
    { <<<<>>>>,
      <<<<Binding("T", TypeParam("T", None, None), 0)>>>>,
      <<<<Binding("Array", TypeParam("Array", None, None), 0)>>>>,
      <<<<Binding("T", Interface("T", None, <<>>, <<>>), -1),
          Binding("T", TypeParam("T", None, None), 0)>>>>,
      <<<<Binding("T", TypeParam("T", Keyword("number"), None), -1)>>,
        <<Binding("T", TypeParam("T", None, None), 0)>>>> }

Analyzer(scopes, is_builtin) ==
    [scopes |-> scopes, errors |-> <<>>, is_builtin |-> is_builtin,
     regs |-> 0, fail |-> 0, log |-> <<>>, path |-> <<>>]

LowInit ==
    /\ CastIdle
    /\ DefIdle
    /\ \E scopes \in InitScopes, b \in BOOLEAN : lowAn = Analyzer(scopes, b)
    /\ lowPc = "ready"
    /\ lowOp = None
    /\ lowRef = None

\* what is kept of a validate: the node, its result, the node as left behind
Lowered(op, node, r, out) ==
    [op |-> op, node |-> node, ok |-> r.ok, v |-> r.v, err |-> r.err, out |-> out,
     scopes0 |-> lowAn.scopes]

\* Validate<TsTypeParamDecl>::validate on a declaration, in the current scope
LowerTypeParamDecl ==
    /\ lowPc = "ready"
    /\ \E decl \in TsTypeParamDecls, f \in 0..MaxRegs :
          \E r \in {validate_type_param_decl([lowAn EXCEPT !.fail = f], decl)} :
              /\ lowAn' = r.a
              /\ lowOp' = Lowered("TsTypeParamDecl", decl, r, decl)
    /\ lowPc' = "lowered"
    /\ UNCHANGED <<lowRef, castVars, defVars>>

\* Validate<TsTypeRef>::validate on a type reference
LowerTypeRef ==
    /\ lowPc = "ready"
    /\ \E t \in TypeRefs, f \in 0..MaxRegs :
          \E r \in {validate_type_ref([lowAn EXCEPT !.fail = f], t)} :
              /\ lowAn' = r.a
              /\ lowOp' = Lowered("TsTypeRef", t, r, t)
    /\ lowPc' = "lowered"
    /\ UNCHANGED <<lowRef, castVars, defVars>>

\* Validate<TsTypeElement>::validate on a member of a type literal
LowerTypeElement ==
    /\ lowPc = "ready"
    /\ \E e \in TypeElements, f \in 0..MaxRegs :
          \E r \in {validate_type_element([lowAn EXCEPT !.fail = f], e)} :
              /\ lowAn' = r.a
              /\ lowOp' = Lowered(e.kind, e, r, r.node)
    /\ lowPc' = "lowered"
    /\ UNCHANGED <<lowRef, castVars, defVars>>

\* Validate<TsInterfaceDecl>::validate on an interface declaration
LowerInterfaceDecl ==
    /\ lowPc = "ready"
    /\ \E d \in Interfaces, f \in 0..MaxRegs :
          \E r \in {validate_interface_decl([lowAn EXCEPT !.fail = f], d)} :
              /\ lowAn' = r.a
              /\ lowOp' = Lowered("TsInterfaceDecl", d, r, r.node)
    /\ lowPc' = "lowered"
    /\ UNCHANGED <<lowRef, castVars, defVars>>

\* a reference to a name is lowered afterwards, in the same scope
LowerLaterRef ==
    /\ lowPc = "lowered"
    /\ \E n \in ParamNames \cup RefNames :
          \E r \in {validate_type_ref([lowAn EXCEPT !.fail = 0], NameRef(n))} :
              /\ lowAn' = r.a
              /\ lowRef' = r.a.log[Len(r.a.log)]
    /\ lowPc' = "referenced"
    /\ UNCHANGED <<lowOp, castVars, defVars>>

LowNext ==
    \/ LowerTypeParamDecl
    \/ LowerTypeRef
    \/ LowerTypeElement
    \/ LowerInterfaceDecl
    \/ LowerLaterRef

SpecLower == LowInit /\ [][LowNext]_vars

(***************************************************************************)
(* Claims about the lowering, checked under SpecLower.                     *)
(***************************************************************************)
LowLog == lowAn.log
InPath(e, m) == \E i \in 1..Len(e.at) : e.at[i] = m
IsResolveOf(e, n) == e.ev = "resolve" /\ e.name = EntityIdent(n)
FailedRegisterIn(m) ==
    \E i \in 1..Len(LowLog) :
        LowLog[i].ev = "register" /\ ~LowLog[i].ok /\ InPath(LowLog[i], m)
Declares(decl, n) ==
    decl # None /\ \E k \in 1..Len(decl.params) : decl.params[k].name = n

TypeArgsLowered == \A i \in 1..Len(LowLog) : LowLog[i].ev = "register" => LowLog[i].ok

\* the first type-parameter placeholder among the bindings of name
FirstParamBinding(a, n) ==
    LET found == find_type(a, n)
        k == CHOOSE i \in 1..Len(found) :
                 /\ found[i].ty.kind = "Param"
                 /\ \A j \in 1..(i - 1) : found[j].ty.kind # "Param"
    IN  found[k]
HasParamBinding(a, n) ==
    \E i \in 1..Len(find_type(a, n)) : find_type(a, n)[i].ty.kind = "Param"

\* C5: a type reference whose arguments lowered resolves to (1) an array
\* type when the name is `Array` with exactly one argument, (2) otherwise
\* the first type-parameter placeholder bound to the name, if any, (3)
\* otherwise an opaque reference with the name and the arguments; it never fails.
C5_TypeRefResolution ==
    (lowPc = "lowered" /\ lowOp.op = "TsTypeRef" /\ TypeArgsLowered)
    => LET t == lowOp.node
           v == lowOp.v
           ident == t.type_name.kind = "Ident"
       IN  /\ lowOp.ok
           /\ IF ident /\ t.type_name.sym = "Array" /\ t.type_params # None
                 /\ Len(t.type_params.params) = 1
              THEN v.kind = "Array"
              ELSE IF ident /\ HasParamBinding(lowAn, t.type_name.sym)
              THEN v = FirstParamBinding(lowAn, t.type_name.sym).ty
              ELSE /\ v.kind = "Ref"
                   /\ v.type_name = t.type_name
                   /\ (v.type_args = None) = (t.type_params = None)
                   /\ v.type_args # None
                        => Len(v.type_args.params) = Len(t.type_params.params)

\* C5 as the code has it: `Array` with type arguments never consults the scope
C5_ArrayWithArgsSkipsLookup ==
    (lowPc = "lowered" /\ lowOp.op = "TsTypeRef" /\ TypeArgsLowered)
    => LET t == lowOp.node
           v == lowOp.v
           ident == t.type_name.kind = "Ident"
           array == ident /\ t.type_name.sym = "Array" /\ t.type_params # None
       IN  /\ lowOp.ok
           /\ IF array /\ Len(t.type_params.params) = 1
              THEN v.kind = "Array"
              ELSE IF ident /\ ~array /\ HasParamBinding(lowAn, t.type_name.sym)
              THEN v = FirstParamBinding(lowAn, t.type_name.sym).ty
              ELSE v.kind = "Ref" /\ v.type_name = t.type_name

IsInterfaceOp == lowPc = "lowered" /\ lowOp.op = "TsInterfaceDecl"
\* a successful registration of the interface being lowered in its nested scope
IsNestedSelfRegister(e) ==
    /\ e.ev = "register" /\ e.ok
    /\ e.name = lowOp.node.id
    /\ e.ty.kind = "Interface"
    /\ e.depth = Len(lowOp.scopes0) + 1
IsBodyMember(e) == e.ev = "member"

MethodDeclaring(k, n) ==
    /\ lowOp.node.body[k].kind = "TsMethodSignature"
    /\ Declares(lowOp.node.body[k].type_params, n)
InMethodUse(e) ==
    \/ InPath(e, [in |-> "params", of |-> "TsMethodSignature"])
    \/ InPath(e, [in |-> "type_ann", of |-> "TsMethodSignature"])
\* the first successful registration of n made under all the path markers ms
FirstRegisteredAt(n, ms) ==
    LET idx == {i \in 1..Len(LowLog) :
                   /\ LowLog[i].ev = "register" /\ LowLog[i].ok
                   /\ LowLog[i].name = n
                   /\ \A m \in ms : InPath(LowLog[i], m)}
    IN  IF idx = {} THEN None
        ELSE LowLog[CHOOSE i \in idx : \A j \in idx : i <= j]

\* C7: when an interface and one of its method signatures both declare T,
\* references to T in that method's parameters and return type resolve to
\* the method's T and references to T elsewhere in the body resolve to the
\* interface's T; lowering a method signature leaves the scope chain as it
\* found it, whether or not it succeeds.
C7_MethodTypeParamsScoped ==
    /\ (IsInterfaceOp /\ Declares(lowOp.node.type_params, "T"))
       => LET ofInterface ==
                  FirstRegisteredAt("T", {[in |-> "type_params", of |-> "TsInterfaceDecl"]})
          IN  \A i \in 1..Len(LowLog) : \A k \in 1..Len(lowOp.node.body) :
                 (/\ IsResolveOf(LowLog[i], "T")
                  /\ InPath(LowLog[i], [in |-> "member", of |-> "TsInterfaceBody", k |-> k]))
                 => LET ofMethod ==
                            FirstRegisteredAt("T",
                                {[in |-> "member", of |-> "TsInterfaceBody", k |-> k],
                                 [in |-> "type_params", of |-> "TsMethodSignature"]})
                    IN  /\ LowLog[i].how = "param"
                        /\ IF MethodDeclaring(k, "T")
                           THEN InMethodUse(LowLog[i])
                                => /\ ofMethod # None
                                   /\ LowLog[i].oid = ofMethod.n
                                   /\ ofMethod.depth = Len(lowOp.scopes0) + 2
                           ELSE /\ ofInterface # None
                                /\ LowLog[i].oid = ofInterface.n
                                /\ ofInterface.depth = Len(lowOp.scopes0) + 1
    /\ (lowPc = "lowered" /\ lowOp.op = "TsMethodSignature")
       => lowAn.scopes = lowOp.scopes0

\* interface I<T> { m<T>(p: T): ...; q: T } was lowered: the method's T and
\* the property's T resolved to different bindings
C7_Witness ==
    /\ IsInterfaceOp /\ lowOp.ok
    /\ Declares(lowOp.node.type_params, "T")
    /\ Len(lowOp.node.body) = 2
    /\ lowOp.node.body[1].kind = "TsMethodSignature"
    /\ lowOp.node.body[2].kind = "TsPropertySignature"
    /\ \E i, j \in 1..Len(LowLog) :
          /\ i < j
          /\ IsResolveOf(LowLog[i], "T") /\ IsResolveOf(LowLog[j], "T")
          /\ InPath(LowLog[i], [in |-> "member", of |-> "TsInterfaceBody", k |-> 1])
          /\ InPath(LowLog[i], [in |-> "params", of |-> "TsMethodSignature"])
          /\ InPath(LowLog[j], [in |-> "member", of |-> "TsInterfaceBody", k |-> 2])
          /\ LowLog[i].how = "param" /\ LowLog[j].how = "param"
          /\ LowLog[i].oid > LowLog[j].oid

IsPropertyOp == lowPc = "lowered" /\ lowOp.op = "TsPropertySignature"
PropertyAnnFailed == FailedRegisterIn([in |-> "type_ann", of |-> "TsPropertySignature"])
PropertyDiagnostics ==
    {i \in 1..Len(LowLog) :
        LowLog[i].ev = "push_error" /\ LowLog[i].by = "TsPropertySignature"}
PropertyKeyDiagnostics ==
    IF ~lowAn.is_builtin /\ lowOp.node.computed /\ ~lowOp.node.key_ok THEN 1 ELSE 0

\* C8 as stated: a property signature whose annotation is missing or fails
\* to lower has its annotation overwritten with a synthetic `any`, gets the
\* type `any`, has a diagnostic appended, and does not fail on that account.
C8_MissingOrFailingAnnotationReported ==
    IsPropertyOp
    => ((lowOp.node.type_ann = None \/ PropertyAnnFailed)
        => /\ lowOp.out.type_ann = SyntheticAnyAnn
           /\ lowOp.ok => lowOp.v.type_ann = TypeAny
           /\ Cardinality(PropertyDiagnostics) = 1
           /\ lowOp.ok
                = ~FailedRegisterIn([in |-> "type_params", of |-> "TsPropertySignature"]))

\* C8 as the code has it: the annotation is overwritten with a synthetic `any`
\* and the property typed `any` when the annotation is missing or fails to
\* lower, but a diagnostic is appended only when an annotation is present and
\* fails to lower; a missing annotation is defaulted silently.
C8_OnlyFailingAnnotationReported ==
    IsPropertyOp
    => /\ lowOp.ok
            = ~FailedRegisterIn([in |-> "type_params", of |-> "TsPropertySignature"])
       /\ (lowOp.node.type_ann = None \/ PropertyAnnFailed)
            => /\ lowOp.out.type_ann = SyntheticAnyAnn
               /\ lowOp.ok => lowOp.v.type_ann = TypeAny
       /\ (lowOp.node.type_ann # None /\ ~PropertyAnnFailed)
            => lowOp.out.type_ann = lowOp.node.type_ann
       /\ Cardinality(PropertyDiagnostics)
            = IF lowOp.node.type_ann # None /\ PropertyAnnFailed THEN 1 ELSE 0
       /\ Len(lowAn.errors) = Cardinality(PropertyDiagnostics) + PropertyKeyDiagnostics

IsDeclOp == lowPc = "lowered" /\ lowOp.op = "TsTypeParamDecl"
\* where in the log the declaration's own register_type calls are (those not
\* made while a constraint or default was lowered), in order
DeclRegisterIdx ==
    SelectSeq([i \in 1..Len(LowLog) |-> i],
              LAMBDA i : LowLog[i].ev = "register" /\ Len(LowLog[i].at) = 0)
\* how many of them precede log position i
DeclRegistersBefore(i) ==
    Cardinality({j \in 1..Len(DeclRegisterIdx) : DeclRegisterIdx[j] < i})

SelfRegisters(d) ==
    {i \in 1..Len(LowLog) :
        /\ LowLog[i].ev = "register"
        /\ LowLog[i].name = lowOp.node.id
        /\ LowLog[i].ty.kind = "Interface"
        /\ LowLog[i].depth = d}
\* lowering the type parameters, the extends list or the body failed: a
\* registration made for one of them failed and was not recovered from
InterfacePartFailed ==
    \E i \in 1..Len(LowLog) :
        /\ LowLog[i].ev = "register" /\ ~LowLog[i].ok
        /\ Len(LowLog[i].at) > 0
        /\ ~InPath(LowLog[i], [in |-> "type_ann", of |-> "TsPropertySignature"])

\* C14: the registration into the interface's own nested scope, when it
\* fails, appends one diagnostic and lowering goes on to the resolution of
\* parent interfaces and to the registration into the enclosing scope; a
\* failure of that second registration is the result of the lowering; when
\* type parameters, extends list or body fail, neither registration is made.
C14_InterfaceRegistrationPolicies ==
    IsInterfaceOp
    => LET nested == SelfRegisters(Len(lowOp.scopes0) + 1)
           outer == SelfRegisters(Len(lowOp.scopes0))
           resolved == {i \in 1..Len(LowLog) : LowLog[i].ev = "resolve_parent_interfaces"}
       IN  IF InterfacePartFailed
           THEN nested = {} /\ outer = {} /\ resolved = {} /\ ~lowOp.ok
           ELSE /\ Cardinality(nested) = 1
                /\ Cardinality(resolved) = 1
                /\ Cardinality(outer) = 1
                /\ \A i \in nested, j \in resolved, k \in outer :
                      /\ i < j /\ j < k
                      /\ Len(lowAn.errors)
                           = Cardinality(PropertyDiagnostics)
                             + (IF LowLog[i].ok THEN 0 ELSE 1)
                      /\ ~LowLog[i].ok
                           => lowAn.errors[Len(lowAn.errors)].err = "register_type"
                      /\ lowOp.ok = LowLog[k].ok
                      /\ ~lowOp.ok => lowOp.err.err = "register_type"
                /\ lowOp.ok = (Len(lowAn.scopes[Len(lowAn.scopes)])
                                 > Len(lowOp.scopes0[Len(lowOp.scopes0)]))

\* the registration into the nested scope failed: one diagnostic, and the
\* interface was still resolved and registered in the enclosing scope
C14_Witness ==
    /\ IsInterfaceOp /\ lowOp.ok
    /\ Len(lowAn.errors) = 1
    /\ \E i \in SelfRegisters(Len(lowOp.scopes0) + 1) : ~LowLog[i].ok
    /\ \E k \in SelfRegisters(Len(lowOp.scopes0)) : LowLog[k].ok
    /\ \E j \in 1..Len(LowLog) : LowLog[j].ev = "resolve_parent_interfaces"

SignatureKinds == {"TsCallSignatureDecl", "TsConstructSignatureDecl", "TsMethodSignature"}
\* a signature of the given kinds that declares T was lowered on its own
IsSignatureOpDeclaring(kinds, n) ==
    /\ lowPc = "lowered"
    /\ lowOp.op \in kinds
    /\ Declares(lowOp.node.type_params, n)
\* where in the log the signature's own registrations of n are: the
\* successful ones made while its type-parameter declaration was lowered
OwnTypeParamIdx(n) ==
    {j \in 1..Len(LowLog) :
        /\ LowLog[j].ev = "register" /\ LowLog[j].ok
        /\ LowLog[j].name = n
        /\ InPath(LowLog[j], [in |-> "type_params", of |-> lowOp.op])}
\* log position i is a reference to n inside the signature's parameter list
IsParamListUse(i, n) ==
    /\ IsResolveOf(LowLog[i], n)
    /\ InPath(LowLog[i], [in |-> "params", of |-> lowOp.op])
\* the reference at log position i resolved to the signature's own n, which
\* was registered before it
ResolvesToOwn(i, n) ==
    /\ LowLog[i].how = "param"
    /\ \E j \in OwnTypeParamIdx(n) :
          /\ j < i
          /\ \A j2 \in OwnTypeParamIdx(n) : j <= j2
          /\ LowLog[i].oid = LowLog[j].n
\* what a reference to n resolves to in the scopes the lowering started in
OuterBinding(n) == first_type_param(find_type(Analyzer(lowOp.scopes0, FALSE), n), 1)

\* C16: for call, construct and method signatures that declare their own
\* type parameters, the declaration is lowered and its names registered
\* before the parameter list is lowered, so a reference to the signature's
\* own T inside its parameter types resolves to that T's placeholder, not to
\* an outer binding or an opaque reference.
C16_OwnTypeParamsBeforeParams ==
    IsSignatureOpDeclaring(SignatureKinds, "T")
    => \A i \in 1..Len(LowLog) : IsParamListUse(i, "T") => ResolvesToOwn(i, "T")

\* the same for method signatures alone, which the code does satisfy
C16_MethodTypeParamsBeforeParams ==
    IsSignatureOpDeclaring({"TsMethodSignature"}, "T")
    => \A i \in 1..Len(LowLog) : IsParamListUse(i, "T") => ResolvesToOwn(i, "T")

\* in a call or construct signature every reference in the parameter list
\* is lowered before any of the signature's type parameters is registered,
\* and resolves as it would outside the signature
C16_CallConstructParamsFirst ==
    IsSignatureOpDeclaring({"TsCallSignatureDecl", "TsConstructSignatureDecl"}, "T")
    => \A i \in 1..Len(LowLog) :
           IsParamListUse(i, "T")
           => /\ \A j \in OwnTypeParamIdx("T") : i < j
              /\ IF OuterBinding("T") = None
                 THEN LowLog[i].how = "ref"
                 ELSE /\ LowLog[i].how = "param"
                      /\ LowLog[i].oid = OuterBinding("T").oid

\* <T>(p: T) was lowered as a call signature with no T in scope: the
\* parameter's T became an opaque reference
C16_CallSignatureOpaque ==
    /\ IsSignatureOpDeclaring({"TsCallSignatureDecl"}, "T")
    /\ lowOp.ok
    /\ \E i \in 1..Len(LowLog) : IsParamListUse(i, "T") /\ LowLog[i].how = "ref"

\* m<T>(p: T) was lowered as a method signature: the parameter's T resolved
\* to the method's own T
C16_MethodOwnResolved ==
    /\ IsSignatureOpDeclaring({"TsMethodSignature"}, "T")
    /\ lowOp.ok
    /\ \E i \in 1..Len(LowLog) : IsParamListUse(i, "T") /\ ResolvesToOwn(i, "T")

====
